---- MODULE Spec2Model ----
(***************************************************************************)
(* LetsPack: a wrapper that bundles scripts (terser), processes a          *)
(* stylesheet (postcss) and writes a Laravel mix-manifest.json.            *)
(*                                                                         *)
(* The repository holds four revisions of the same class.  The model       *)
(* carries the revision in the variable rev and every operation branches   *)
(* on it exactly where the revisions differ:                               *)
(*   "first"   src/unnamed/part_001 lines   1-192                          *)
(*   "main"    src/src/letsPack.js                                         *)
(*   "timeout" src/unnamed/part_001 lines 440-675                          *)
(*   "async"   src/unnamed/part_001 lines 194-438                          *)
(*                                                                         *)
(* Strings are sequences of tokens ("/" and "\\" are tokens of their own,  *)
(* an extension such as ".js" is one token).  Every callback of the event  *)
(* loop is one action.                                                     *)
(***************************************************************************)
EXTENDS Integers, Sequences, FiniteSets, TLC

VARIABLES rev, dirEntries, outputFiles, disk, tasks, ver, vcalls, manifest, console

vars == <<rev, dirEntries, outputFiles, disk, tasks, ver, vcalls, manifest, console>>

----------------------------------------------------------------------------
(* Bounds of the model *)

\* number of scripts/styles invocations on the instance
MaxCalls == 2
\* number of version invocations on the instance
MaxVersionCalls == 1
\* number of entries of the source directory
MaxDirEntries == 2

----------------------------------------------------------------------------
(* Program constants *)

KiB == 1024
MiB == 1048576
TabStop == 8

Revisions == {"first", "main", "timeout", "async"}

\* revisions whose #readFiles knows URLs
UrlRevisions == {"timeout", "async"}

\* JS null
Null == << >>

----------------------------------------------------------------------------
(* The environment the calls are made in: paths, source files, responses *)

Cwd == <<"/", "w">>

OutPaths ==
  { <<"dist", "/", "app", ".js">>,
    <<"dist", "\\", "site", ".css">>,
    <<"out", "/", "bundle">> }

SrcDir == <<"src">>
MissingDir == <<"gone">>

\* names a directory listing can hold; "sub" is a sub-directory
EntryNames == {"a.js", "b.js", "c.js", "sub"}
SubDirs == {"sub"}

LibFile == <<"lib", "/", "m.js">>
MissingFile == <<"nope.js">>
CdnUrl == <<"https:", "/", "/", "cdn", "/", "x.js">>
HttpUrl == <<"http:", "/", "/", "cdn", "/", "y.js">>

Schemes == {"https:", "http:"}

\* the chunks the response to a GET of url arrives in
Body(url) == IF url = CdnUrl THEN <<"x1", "x2">> ELSE <<"y1">>

StyleFile == <<"css", "/", "site.css">>
MissingStyle == <<"css", "/", "gone.css">>

NoRepeat(s) == \A i, j \in DOMAIN s : i # j => s[i] # s[j]

RECURSIVE SeqsOver(_, _)
\* the sequences without repetition over S of length at most n
SeqsOver(S, n) ==
  IF n = 0 THEN { << >> }
  ELSE LET shorter == SeqsOver(S, n - 1)
           longer == { Append(s, x) : s \in shorter, x \in S }
       IN shorter \cup { s \in longer : NoRepeat(s) }

----------------------------------------------------------------------------
(* path and string helpers *)

\* path.resolve(p) with the working directory Cwd
Resolve(p) == IF Len(p) > 0 /\ p[1] = "/" THEN p ELSE Cwd \o <<"/">> \o p

\* path.join(dirName, file)
Join(dirName, file) == dirName \o <<"/">> \o <<file>>

\* s.lastIndexOf(ch): the last position of the token, 0 when there is none
\* (positions count from 1, so this is JS lastIndexOf + 1)
LastIndexOf(s, ch) ==
  IF \E i \in DOMAIN s : s[i] = ch
  THEN CHOOSE i \in DOMAIN s : s[i] = ch /\ \A j \in DOMAIN s : s[j] = ch => j <= i
  ELSE 0

\* s.substring(s.lastIndexOf(ch) + 1)
AfterLast(s, ch) == SubSeq(s, LastIndexOf(s, ch) + 1, Len(s))

\* s.replaceAll(a, b)
ReplaceAll(s, a, b) == [i \in DOMAIN s |-> IF s[i] = a THEN b ELSE s[i]]

EndsWith(s, tok) == Len(s) > 0 /\ s[Len(s)] = tok

----------------------------------------------------------------------------
(* The source files on disk and the network, as the calls find them *)

\* the files that exist under the working directory: content by resolved path
FileExists(path) ==
  \/ path = Resolve(LibFile)
  \/ path = Resolve(StyleFile)
  \/ \E i \in DOMAIN dirEntries :
        dirEntries[i] \notin SubDirs /\ path = Join(Resolve(SrcDir), dirEntries[i])

\* readFileSync(path, "utf-8") of an existing file
FileContent(path) == <<"text of", path[Len(path)]>>

\* new URL(link).protocol, "" when the constructor throws
Protocol(link) == IF Len(link) > 0 /\ link[1] \in Schemes THEN link[1] ELSE ""

\* #isURL(link)
IsURL(link) == Protocol(link) # "" /\ "https:" = Protocol(link)

\* the empty object {}
EmptyCodes == [k \in {} |-> << >>]

\* codes[name] = content
Put(codes, name, content) ==
  [k \in DOMAIN codes \cup {name} |-> IF k = name THEN content ELSE codes[k]]

\* the state of a synchronous read: the map built so far, the GET requests
\* issued, whether an exception left the loop, whether any I/O was started
NoRead == [codes |-> EmptyCodes, gets |-> << >>, threw |-> FALSE,
           usage |-> FALSE, io |-> FALSE]

RECURSIVE ReadFilesFrom(_, _, _)
ReadFilesFrom(files, i, acc) ==
  IF i > Len(files) \/ acc.threw THEN acc
  ELSE LET file == files[i] IN
       IF rev \in UrlRevisions /\ IsURL(file)
       THEN ReadFilesFrom(files, i + 1,
              [acc EXCEPT !.gets = Append(@, file), !.io = TRUE])
       ELSE IF FileExists(Resolve(file))
       THEN ReadFilesFrom(files, i + 1,
              [acc EXCEPT !.codes =
                            Put(@, IF rev \in UrlRevisions THEN Resolve(file) ELSE file,
                                FileContent(Resolve(file))),
                          !.io = TRUE])
       ELSE [acc EXCEPT !.threw = TRUE, !.io = TRUE]

\* a forEach that misses the first element
ReadFilesSkipFirst(files) == ReadFilesFrom(files, 2, NoRead)

\* #readFiles(files, onFileContent)
ReadFiles(files) == ReadFilesFrom(files, 1, NoRead)

\* #readDirectoryFiles(dirName, onFileContent): readdirSync throws for a
\* directory that does not exist
ReadDirectoryFiles(dirName) ==
  IF dirName = Resolve(SrcDir)
  THEN ReadFiles([i \in DOMAIN dirEntries |-> Join(dirName, dirEntries[i])])
  ELSE [NoRead EXCEPT !.threw = TRUE, !.io = TRUE]

\* the branch on the type of the scripts argument
ScriptsRead(arg) ==
  IF arg.type = "array"
  THEN ReadFiles(IF rev \in UrlRevisions THEN arg.val
                 ELSE [i \in DOMAIN arg.val |-> Resolve(arg.val[i])])
  ELSE IF arg.type = "string"
  THEN ReadDirectoryFiles(Resolve(arg.val))
  ELSE [NoRead EXCEPT !.threw = TRUE, !.usage = TRUE]

\* the responses that have not ended, one per GET issued by #download
Responses(gets) ==
  [u \in { gets[i] : i \in DOMAIN gets } |->
     [content |-> << >>, left |-> Body(u), ended |-> FALSE]]

\* the plugin list handed to postcss
Plugins ==
  IF rev = "first" THEN <<"importer", "autoprefixer", "csso">>
  ELSE <<"autoprefixer", "importer", "csso">>

----------------------------------------------------------------------------
(* arguments the caller may pass *)

ArrayArg(list) == [type |-> "array", val |-> list]
StringArg(p) == [type |-> "string", val |-> p]
NumberArg == [type |-> "number", val |-> << >>]

ScriptArgs ==
  { ArrayArg(<<LibFile>>), ArrayArg(<<CdnUrl, LibFile>>),
    ArrayArg(<<HttpUrl>>), ArrayArg(<<MissingFile>>),
    StringArg(SrcDir), StringArg(MissingDir), NumberArg }

StyleArgs == { StringArg(StyleFile), StringArg(MissingStyle), NumberArg }

\* the size of the bundles the transform services return
BundleSizes == {KiB}

\* the sizes #printSize is studied on: around both thresholds
SizeInputs == {0, 1} \cup ((KiB - 3)..(KiB + 3)) \cup {KiB + 512, 10 * KiB}
                \cup ((MiB - 3)..(MiB + 3)) \cup {3 * MiB}

NoContent == [by |-> 0, size |-> 0]
Absent == [by |-> -1, size |-> 0]

----------------------------------------------------------------------------
(* scripts and styles *)

Task(kind, arg, out) ==
  [kind |-> kind, arg |-> arg, out |-> out, pc |-> "done", ret |-> "this",
   usage |-> FALSE, io |-> FALSE, codes |-> EmptyCodes,
   resp |-> Responses(<< >>), minified |-> FALSE, submitted |-> EmptyCodes,
   unended |-> {}, plugins |-> << >>, result |-> NoContent, label |-> Null,
   written |-> FALSE, wfail |-> FALSE, unhandled |-> FALSE]

\* how an exception raised in the body of the method reaches the caller
Raised == IF rev = "async" THEN "rejected" ELSE "threw"

\* the responses of a task that have not ended
Unended(resp) == { u \in DOMAIN resp : ~resp[u].ended }

\* scripts(scripts, output), up to its return
Scripts(arg, output) ==
  /\ Len(tasks) < MaxCalls
  /\ LET r == ScriptsRead(arg)
         t == [Task("scripts", arg, Resolve(output)) EXCEPT
                 !.usage = r.usage, !.io = r.io, !.codes = r.codes,
                 !.resp = Responses(r.gets)]
     IN tasks' = Append(tasks,
          IF r.threw THEN [t EXCEPT !.ret = Raised]
          ELSE IF rev = "timeout" THEN [t EXCEPT !.pc = "timer"]
          ELSE [t EXCEPT !.pc = "minify", !.minified = TRUE,
                         !.submitted = r.codes,
                         !.unended = Unended(t.resp),
                         !.ret = IF rev = "async" THEN "pending" ELSE "this"])
  /\ outputFiles' = [outputFiles EXCEPT !.js = output]
  /\ UNCHANGED <<rev, dirEntries, disk, ver, vcalls, manifest, console>>

\* the callback of setTimeout(..., 1250): minify is called with codes as it is
TimerFires(i) ==
  /\ tasks[i].pc = "timer"
  /\ tasks' = [tasks EXCEPT ![i] =
       [@ EXCEPT !.pc = "minify", !.minified = TRUE, !.submitted = tasks[i].codes,
                 !.unended = Unended(tasks[i].resp)]]
  /\ UNCHANGED <<rev, dirEntries, outputFiles, disk, ver, vcalls, manifest, console>>

\* response "data" listener: content += data.toString()
DownloadData(i, u) ==
  /\ tasks[i].resp[u].left # << >>
  /\ tasks' = [tasks EXCEPT ![i].resp[u] =
       [@ EXCEPT !.content = @ \o <<Head(tasks[i].resp[u].left)>>,
                 !.left = Tail(@)]]
  /\ UNCHANGED <<rev, dirEntries, outputFiles, disk, ver, vcalls, manifest, console>>

\* response "end" listener: onFileContent(name, content)
DownloadEnd(i, u) ==
  /\ tasks[i].resp[u].left = << >>
  /\ ~tasks[i].resp[u].ended
  /\ tasks' = [tasks EXCEPT ![i] =
       [@ EXCEPT !.codes = Put(@, AfterLast(u, "/"), tasks[i].resp[u].content),
                 !.resp[u].ended = TRUE]]
  /\ UNCHANGED <<rev, dirEntries, outputFiles, disk, ver, vcalls, manifest, console>>

\* console.log / console.error of an error object
ErrorLine(chan, i) ==
  [chan |-> chan, task |-> i, what |-> "err", line |-> <<"Error">>, size |-> 0]

\* fs.writeFile / writeFile(output, data, callback) is called
StartWrite(t, content) ==
  [t EXCEPT !.pc = "write", !.result = content,
            !.label = IF rev = "async" THEN outputFiles[IF t.kind = "scripts" THEN "js" ELSE "css"]
                      ELSE @]

\* the promise of minify settles
MinifyDone(i) ==
  /\ tasks[i].pc = "minify"
  /\ \/ \E s \in BundleSizes :
          tasks' = [tasks EXCEPT ![i] =
            [StartWrite(@, [by |-> i, size |-> s]) EXCEPT
               !.ret = IF rev = "async" THEN "resolved" ELSE @]]
     \/ tasks' = [tasks EXCEPT ![i] =
          IF rev = "async" THEN [@ EXCEPT !.pc = "done", !.ret = "rejected"]
          ELSE [@ EXCEPT !.pc = "done", !.unhandled = TRUE]]
  /\ UNCHANGED <<rev, dirEntries, outputFiles, disk, ver, vcalls, manifest, console>>

\* the callback of writeFile in scripts and styles (#writeToFile in "async")
WriteDone(i) ==
  /\ tasks[i].pc = "write"
  /\ LET t == tasks[i]
         slot == IF t.kind = "scripts" THEN "js" ELSE "css"
     IN \/ /\ disk' = [disk EXCEPT ![t.out] = t.result]
           /\ tasks' = [tasks EXCEPT ![i] =
                [@ EXCEPT !.pc = "stat", !.written = TRUE,
                          !.label = IF rev = "async" THEN @ ELSE outputFiles[slot]]]
           /\ console' = console
        \/ /\ disk' = disk
           /\ console' = console \cup {ErrorLine("log", i)}
           /\ tasks' = [tasks EXCEPT ![i] =
                IF rev = "async" THEN [@ EXCEPT !.pc = "done", !.wfail = TRUE]
                ELSE [@ EXCEPT !.pc = "stat", !.wfail = TRUE,
                               !.label = outputFiles[slot]]]
  /\ UNCHANGED <<rev, dirEntries, outputFiles, ver, vcalls, manifest>>

----------------------------------------------------------------------------
(* #printSize *)

\* the number of characters of a token
TokenLen(tok) ==
  CASE tok \in {"/", "\\", ":", " "} -> 1
    [] tok \in {"app", "out", "min", ".js"} -> 3
    [] tok \in {"dist", "site", ".css"} -> 4
    [] tok = "bundle" -> 6
    [] OTHER -> 1

RECURSIVE CharLen(_)
\* name.length
CharLen(s) == IF s = << >> THEN 0 ELSE TokenLen(Head(s)) + CharLen(Tail(s))

\* n spaces
Spaces(n) == [i \in 1..n |-> " "]

\* round(size / unit) = +(Math.round(size / unit + "e+2") + "e-2"), in hundredths
Round(size, unit) == (200 * size + unit) \div (2 * unit)

\* a number of hundredths as JS prints it
Decimal(h) ==
  LET int == h \div 100
      frac == h % 100
  IN IF frac = 0 THEN <<ToString(int)>>
     ELSE IF frac % 10 = 0 THEN <<ToString(int), ".", ToString(frac \div 10)>>
     ELSE IF frac < 10 THEN <<ToString(int), ".", "0", ToString(frac)>>
     ELSE <<ToString(int), ".", ToString(frac)>>

\* the name column without the padding loop
NameColumnNoPad(name) == AfterLast(name, "/") \o <<":">>

\* the name column: padded to the tab stop except in the first revision
NameColumn(name) ==
  LET base == AfterLast(name, "/")
  IN IF rev = "first" THEN base \o <<":">>
     ELSE LET mod == CharLen(base \o <<":">>) % TabStop
              indent == IF mod > 0 THEN TabStop - mod ELSE 0
          IN base \o <<":">> \o Spaces(indent)

\* the thresholds compared with <= instead of <
UnitInclusive(size) ==
  IF size <= KiB THEN "byte" ELSE IF size <= MiB THEN "Kb" ELSE "Mb"

\* the unit a size is reported in
Unit(size) ==
  IF size < KiB THEN "byte" ELSE IF size < MiB THEN "Kb" ELSE "Mb"

\* the value printed before the unit
Value(size) ==
  IF size < KiB THEN <<ToString(size)>>
  ELSE IF size < MiB THEN Decimal(Round(size, KiB))
  ELSE Decimal(Round(size, MiB))

\* the line #printSize logs for a file of the given size
SizeLine(name, size) ==
  NameColumn(name) \o <<"\t">> \o Value(size) \o <<" ", Unit(size)>>

\* the callback of stat in #printSize
StatDone(i) ==
  /\ tasks[i].pc = "stat"
  /\ LET t == tasks[i] IN
       console' = console \cup
         { IF disk[t.out] = Absent THEN ErrorLine("error", i)
           ELSE [chan |-> "log", task |-> i, what |-> "size",
                 line |-> SizeLine(t.label, disk[t.out].size),
                 size |-> disk[t.out].size] }
  /\ tasks' = [tasks EXCEPT ![i].pc = "done"]
  /\ UNCHANGED <<rev, dirEntries, outputFiles, disk, ver, vcalls, manifest>>

----------------------------------------------------------------------------
(* styles *)

\* styles(style, output), up to its return
Styles(arg, output) ==
  /\ Len(tasks) < MaxCalls
  /\ LET t == Task("styles", arg, Resolve(output))
     IN IF arg.type # "string"
        THEN /\ tasks' = Append(tasks, [t EXCEPT !.usage = TRUE, !.ret = Raised])
             /\ outputFiles' = IF rev = "async" THEN outputFiles
                               ELSE [outputFiles EXCEPT !.css = output]
        ELSE /\ tasks' = Append(tasks,
                  [t EXCEPT !.pc = "read", !.io = TRUE,
                            !.ret = IF rev = "async" THEN "resolved" ELSE "this"])
             /\ outputFiles' = [outputFiles EXCEPT !.css = output]
  /\ UNCHANGED <<rev, dirEntries, disk, ver, vcalls, manifest, console>>

\* the callback of readFile(style, ...)
ReadDone(i) ==
  /\ tasks[i].pc = "read"
  /\ IF FileExists(Resolve(tasks[i].arg.val))
     THEN /\ tasks' = [tasks EXCEPT ![i] =
               [@ EXCEPT !.pc = "process", !.plugins = Plugins]]
          /\ console' = console
     ELSE /\ tasks' = [tasks EXCEPT ![i].pc = "done"]
          /\ console' = console \cup {ErrorLine("error", i)}
  /\ UNCHANGED <<rev, dirEntries, outputFiles, disk, ver, vcalls, manifest>>

\* the promise of postcss(...).process(...) settles
ProcessDone(i) ==
  /\ tasks[i].pc = "process"
  /\ \/ /\ \E s \in BundleSizes :
             tasks' = [tasks EXCEPT ![i] = StartWrite(@, [by |-> i, size |-> s])]
        /\ console' = console
     \/ /\ tasks' = [tasks EXCEPT ![i].pc = "done"]
        /\ console' = console \cup {ErrorLine("error", i)}
  /\ UNCHANGED <<rev, dirEntries, outputFiles, disk, ver, vcalls, manifest>>

----------------------------------------------------------------------------
(* version *)

\* after: the number of scripts/styles calls made before the version call
VerIdle ==
  [pc |-> "idle", jsArg |-> Null, cssArg |-> Null, js |-> "", css |-> "",
   ret |-> "", unhandled |-> FALSE, mix |-> EmptyCodes, pre |-> FALSE,
   after |-> 0]

\* the digest md5-file computes of a file's content
Digest(content) == ToString(content)

\* md5(path): the promise rejects for null and for a file that is absent
MD5(path) ==
  IF path = Null THEN "rejected"
  ELSE IF disk[Resolve(path)] = Absent THEN "rejected"
  ELSE Digest(disk[Resolve(path)])

\* the base name version derives from a recorded path
BaseName(filePath) == AfterLast(ReplaceAll(filePath, "\\", "/"), "/")

JsDir == <<"/", "js", "/">>
CssDir == <<"/", "css", "/">>

\* the entries the Promise.all callback puts into mix ("main" and "timeout")
MixSync(js, css) ==
  LET jsName == BaseName(outputFiles.js)
      cssName == BaseName(outputFiles.css)
      jsRef == IF rev = "main" THEN jsName ELSE JsDir \o jsName
      cssRef == IF rev = "main" THEN cssName ELSE CssDir \o cssName
  IN Put(Put(EmptyCodes, JsDir \o jsName, jsRef \o <<"?id=", js>>),
         CssDir \o cssName, cssRef \o <<"?id=", css>>)

\* processFile(filePath) of the "async" revision
ProcessFile(mix, filePath, js, css) ==
  LET fileName == BaseName(filePath)
  IN IF EndsWith(fileName, ".js")
     THEN Put(mix, JsDir \o fileName, JsDir \o fileName \o <<"?id=", js>>)
     ELSE Put(mix, CssDir \o fileName, CssDir \o fileName \o <<"?id=", css>>)

MixAsync(js, css) ==
  ProcessFile(ProcessFile(EmptyCodes, outputFiles.js, js, css),
              outputFiles.css, js, css)

\* both output files are recorded and present
VersionReady ==
  /\ outputFiles.js # Null /\ outputFiles.css # Null
  /\ disk[Resolve(outputFiles.js)] # Absent
  /\ disk[Resolve(outputFiles.css)] # Absent

\* version(), up to its return
Version ==
  /\ ver.pc \in {"idle", "done"}
  /\ vcalls < MaxVersionCalls
  /\ vcalls' = vcalls + 1
  /\ ver' = [VerIdle EXCEPT
       !.pc = "hash", !.jsArg = outputFiles.js,
       !.cssArg = IF rev = "async" THEN Null ELSE outputFiles.css,
       !.ret = IF rev = "async" THEN "pending" ELSE "void",
       !.pre = VersionReady, !.after = Len(tasks)]
  /\ UNCHANGED <<rev, dirEntries, outputFiles, disk, tasks, manifest, console>>

\* the reaction of Promise.all(...).then(...) once a hash has settled
Settle(v) ==
  IF v.js = "rejected" \/ v.css = "rejected"
  THEN [v EXCEPT !.pc = "done", !.unhandled = TRUE]
  ELSE IF v.js # "" /\ v.css # ""
  THEN IF rev = "first" THEN [v EXCEPT !.pc = "done"]
       ELSE [v EXCEPT !.pc = "vwrite", !.mix = MixSync(v.js, v.css)]
  ELSE v

\* the promise of md5(outputFiles.js) settles
HashJs ==
  /\ ver.pc = "hash"
  /\ ver.js = ""
  /\ LET h == MD5(ver.jsArg) IN
       ver' = IF rev # "async" THEN Settle([ver EXCEPT !.js = h])
              ELSE IF h = "rejected"
              THEN [ver EXCEPT !.js = h, !.pc = "done", !.ret = "rejected"]
              ELSE [ver EXCEPT !.js = h, !.cssArg = outputFiles.css]
  /\ UNCHANGED <<rev, dirEntries, outputFiles, disk, tasks, vcalls, manifest, console>>

\* the promise of md5(outputFiles.css) settles
HashCss ==
  /\ ver.pc = "hash"
  /\ ver.css = ""
  /\ rev = "async" => ver.js # ""
  /\ LET h == MD5(ver.cssArg) IN
       ver' = IF rev # "async" THEN Settle([ver EXCEPT !.css = h])
              ELSE IF h = "rejected"
              THEN [ver EXCEPT !.css = h, !.pc = "done", !.ret = "rejected"]
              ELSE [ver EXCEPT !.css = h, !.pc = "vwrite", !.ret = "resolved",
                               !.mix = MixAsync(ver.js, h)]
  /\ UNCHANGED <<rev, dirEntries, outputFiles, disk, tasks, vcalls, manifest, console>>

\* the callback of writeFile("public/mix-manifest.json", ...)
VersionWriteDone ==
  /\ ver.pc = "vwrite"
  /\ \/ manifest' = ver.mix /\ console' = console
     \/ manifest' = manifest /\ console' = console \cup {ErrorLine("log", 0)}
  /\ ver' = [ver EXCEPT !.pc = "done"]
  /\ UNCHANGED <<rev, dirEntries, outputFiles, disk, tasks, vcalls>>

----------------------------------------------------------------------------
(* Specifications *)

Init ==
  /\ rev \in Revisions
  /\ dirEntries = <<"a.js", "b.js">>
  /\ outputFiles = [css |-> Null, js |-> Null]
  /\ disk = [p \in { Resolve(o) : o \in OutPaths } |-> Absent]
  /\ tasks = << >>
  /\ ver = VerIdle
  /\ vcalls = 0
  /\ manifest = Null
  /\ console = {}

Next ==
  \/ \E arg \in ScriptArgs, output \in OutPaths : Scripts(arg, output)
  \/ \E arg \in StyleArgs, output \in OutPaths : Styles(arg, output)
  \/ \E i \in DOMAIN tasks :
       \/ TimerFires(i)
       \/ MinifyDone(i)
       \/ WriteDone(i)
       \/ StatDone(i)
       \/ ReadDone(i)
       \/ ProcessDone(i)
       \/ \E u \in DOMAIN tasks[i].resp : DownloadData(i, u) \/ DownloadEnd(i, u)
  \/ Version
  \/ HashJs
  \/ HashCss
  \/ VersionWriteDone

Spec == Init /\ [][Next]_vars

(* The directory reader on its own: every listing of the source directory  *)
(* up to MaxDirEntries entries, read by scripts(<directory>, output).      *)
InitRead ==
  /\ rev \in Revisions
  /\ dirEntries \in SeqsOver(EntryNames, MaxDirEntries)
  /\ outputFiles = [css |-> Null, js |-> Null]
  /\ disk = [p \in { Resolve(o) : o \in OutPaths } |-> Absent]
  /\ tasks = << >>
  /\ ver = VerIdle
  /\ vcalls = 0
  /\ manifest = Null
  /\ console = {}

NextRead ==
  \/ \E output \in OutPaths : Scripts(StringArg(SrcDir), output)
  \/ \E i \in DOMAIN tasks : TimerFires(i)

SpecRead == InitRead /\ [][NextRead]_vars

\* the destinations #printSize is studied on: one more name, whose length
\* with the colon is a multiple of the tab stop
SizeOutPaths == OutPaths \cup { <<"dist", "/", "min", ".css">> }

(* #printSize on its own: the state right after the write callback of a    *)
(* scripts call has run, for every size in SizeInputs.                     *)
InitSize ==
  /\ rev \in Revisions
  /\ dirEntries = <<"a.js", "b.js">>
  /\ \E output \in SizeOutPaths, s \in SizeInputs :
       LET r == ScriptsRead(ArrayArg(<<LibFile>>)) IN
       /\ outputFiles = [css |-> Null, js |-> output]
       /\ disk = [p \in { Resolve(o) : o \in SizeOutPaths } |->
                    IF p = Resolve(output) THEN [by |-> 1, size |-> s] ELSE Absent]
       /\ tasks = << [Task("scripts", ArrayArg(<<LibFile>>), Resolve(output)) EXCEPT
                        !.pc = "stat", !.io = TRUE, !.codes = r.codes,
                        !.minified = TRUE, !.submitted = r.codes,
                        !.result = [by |-> 1, size |-> s], !.label = output,
                        !.written = TRUE,
                        !.ret = IF rev = "async" THEN "resolved" ELSE "this"] >>
  /\ ver = VerIdle
  /\ vcalls = 0
  /\ manifest = Null
  /\ console = {}

NextSize == \E i \in DOMAIN tasks : StatDone(i)

SpecSize == InitSize /\ [][NextSize]_vars

----------------------------------------------------------------------------
(* Properties *)

SizeReported(i) == \E e \in console : e.task = i /\ e.what = "size"

ErrorLogged(i) == \E e \in console : e.task = i /\ e.what = "err"

\* C1: the future returned by scripts or styles is resolved only after the
\* call's output file has been written.
C1_ResolvedAfterWrite ==
  \A i \in DOMAIN tasks : tasks[i].ret = "resolved" => tasks[i].written

\* the manifest the documentation of version promises for the recorded paths
\* jsPath, cssPath and the hashes h1 (script output) and h2 (style output)
ExpectedManifest(jsPath, cssPath, h1, h2) ==
  Put(Put(EmptyCodes, JsDir \o BaseName(jsPath),
          JsDir \o BaseName(jsPath) \o <<"?id=", h1>>),
      CssDir \o BaseName(cssPath),
      CssDir \o BaseName(cssPath) \o <<"?id=", h2>>)

\* C2: when version runs with both slots set and both output files present
\* (two different files), the manifest it writes is exactly
\* {"/js/<jsName>": "/js/<jsName>?id=H1", "/css/<cssName>": "/css/<cssName>?id=H2"}.
C2_ManifestExact ==
  (ver.pc = "done" /\ ver.pre /\ ver.jsArg # ver.cssArg /\ manifest # Null) =>
     manifest = ExpectedManifest(ver.jsArg, ver.cssArg, ver.js, ver.css)

\* C3: a version call whose hash fails (slot unset or file absent) logs the
\* failure on the error channel, leaves no unhandled or returned rejection
\* and writes no manifest.
C3_VersionFailureLogged ==
  (ver.pc = "done" /\ ("rejected" \in {ver.js, ver.css})) =>
     /\ ErrorLine("error", 0) \in console
     /\ ~ver.unhandled
     /\ ver.ret # "rejected"
     /\ manifest = Null

\* a scripts call that ended in a read or directory enumeration failure
ReadFailed(t) ==
  t.kind = "scripts" /\ ~t.usage /\ t.pc = "done" /\ ~t.minified

\* a scripts call whose minification failed
MinifyFailed(t) ==
  t.kind = "scripts" /\ t.minified /\ t.pc = "done" /\ t.result = NoContent

\* C4: a read, directory enumeration or minification failure inside scripts
\* is logged on the error channel and is not thrown synchronously to the
\* caller of scripts.
C4_ScriptsFailureLogged ==
  \A i \in DOMAIN tasks :
     (ReadFailed(tasks[i]) \/ MinifyFailed(tasks[i])) =>
        /\ tasks[i].ret # "threw"
        /\ ErrorLine("error", i) \in console

\* C5: a wrong argument type is signalled by a synchronous throw at the call,
\* before any I/O is started, never as a rejected future.
C5_UsageErrorSynchronous ==
  \A i \in DOMAIN tasks :
     tasks[i].usage => tasks[i].ret = "threw" /\ ~tasks[i].io

\* C6: when the minifier is invoked every URL source's response has ended,
\* and the mapping submitted holds, under the URL's last path segment, the
\* complete response body.
C6_MinifyAfterDownloads ==
  \A i \in DOMAIN tasks :
     tasks[i].minified =>
        /\ tasks[i].unended = {}
        /\ \A u \in DOMAIN tasks[i].resp :
              /\ AfterLast(u, "/") \in DOMAIN tasks[i].submitted
              /\ tasks[i].submitted[AfterLast(u, "/")] = Body(u)

\* a failure of the call reached its caller or the runtime's error output
ErrorSeen(i) ==
  \/ ErrorLogged(i)
  \/ tasks[i].ret \in {"threw", "rejected"}
  \/ tasks[i].unhandled

\* C7: an invocation with valid argument types ends with exactly one of a
\* size report and an error message, and an invocation whose write failed
\* emits no size report.
C7_OneOutcome ==
  \A i \in DOMAIN tasks :
     /\ (tasks[i].pc = "done" /\ ~tasks[i].usage) =>
           (SizeReported(i) # ErrorSeen(i))
     /\ tasks[i].wfail => ~SizeReported(i)

\* the paths of the immediate entries of the directory a task was given
DirectoryFiles(t) ==
  { Join(Resolve(t.arg.val), dirEntries[k]) : k \in DOMAIN dirEntries }

\* C8: for a directory input the mapping submitted to the minifier has
\* exactly one entry per immediate entry of the directory, each mapped to
\* that file's exact content.
C8_DirectoryMapping ==
  \A i \in DOMAIN tasks :
     (tasks[i].kind = "scripts" /\ tasks[i].arg.type = "string"
        /\ tasks[i].minified) =>
        /\ DOMAIN tasks[i].submitted = DirectoryFiles(tasks[i])
        /\ \A f \in DirectoryFiles(tasks[i]) :
              tasks[i].submitted[f] = FileContent(f)

\* a directory with MaxDirEntries files has been read and submitted
C8_Witness ==
  \E i \in DOMAIN tasks :
     /\ tasks[i].arg.type = "string"
     /\ tasks[i].minified
     /\ Len(dirEntries) = MaxDirEntries
     /\ Cardinality(DOMAIN tasks[i].submitted) = MaxDirEntries

\* the unit at the end of a report line
UnitOf(line) == line[Len(line)]

\* C9: a size s is reported in bytes iff s < 1024, in kibibytes iff
\* 1024 <= s < 1048576 and in mebibytes iff s >= 1048576.
C9_SizeClassification ==
  \A e \in console :
     e.what = "size" =>
        /\ UnitOf(e.line) = "byte" <=> e.size < 1024
        /\ UnitOf(e.line) = "Kb" <=> (1024 <= e.size /\ e.size < 1048576)
        /\ UnitOf(e.line) = "Mb" <=> e.size >= 1048576

\* files of exactly 1024 and of exactly 1048576 bytes have been reported
C9_Witness ==
  \E e \in console :
     /\ e.what = "size"
     /\ \/ e.size = 1024 /\ UnitOf(e.line) = "Kb"
        \/ e.size = 1048576 /\ UnitOf(e.line) = "Mb"

\* the position of a plugin in a plugin list
PluginIndex(list, plugin) == CHOOSE k \in DOMAIN list : list[k] = plugin

\* C10: the plugin list styles hands to postcss has import resolution before
\* vendor prefixing and before structural minification.
C10_ImportFirst ==
  \A i \in DOMAIN tasks :
     tasks[i].plugins # << >> =>
        /\ PluginIndex(tasks[i].plugins, "importer")
             < PluginIndex(tasks[i].plugins, "autoprefixer")
        /\ PluginIndex(tasks[i].plugins, "importer")
             < PluginIndex(tasks[i].plugins, "csso")

\* the name a report of task i is about: its recorded destination after the
\* last "/"
ReportName(i) == AfterLast(tasks[i].label, "/")

\* C11 as stated: the report line is <name>:<tab><value> <unit> with nothing
\* between the colon and the tab, whatever the length of the name.
C11_NoPadding ==
  \A e \in console :
     e.what = "size" =>
        e.line = ReportName(e.task) \o <<":", "\t">> \o Value(e.size)
                   \o <<" ", Unit(e.size)>>

\* the fewest spaces that bring a column of n characters to a multiple of 8
PadTo8(n) == (8 - (n % 8)) % 8

\* C11 as amended: the report line is <name>:<padding><tab><value> <unit>,
\* where <name> is the recorded destination after its last "/" and <padding>
\* is the fewest spaces that bring "<name>:<padding>" to a multiple of 8
\* characters; the first revision prints no padding.
C11_PaddedLine ==
  \A e \in console :
     e.what = "size" =>
        LET name == ReportName(e.task)
            n == IF rev = "first" THEN 0 ELSE PadTo8(CharLen(name) + 1)
        IN e.line = name \o <<":">> \o Spaces(n) \o <<"\t">> \o Value(e.size)
                      \o <<" ", Unit(e.size)>>

\* a report whose name column was padded has been printed
C11_Witness ==
  \E e \in console :
     /\ e.what = "size"
     /\ rev # "first"
     /\ e.line[Len(ReportName(e.task)) + 2] = " "

\* a report whose name needed no padding has been printed outside the first
\* revision
C11_WitnessAligned ==
  \E e \in console :
     /\ e.what = "size"
     /\ rev # "first"
     /\ e.line[Len(ReportName(e.task)) + 2] = "\t"

\* the documented chain scripts(...).styles(...).version(): version was
\* called after one scripts call and one styles call, both of which returned
Chained ==
  /\ ver.pc # "idle"
  /\ ver.after = 2
  /\ tasks[1].kind = "scripts" /\ tasks[1].ret \notin {"threw", "rejected"}
  /\ tasks[2].kind = "styles" /\ tasks[2].ret \notin {"threw", "rejected"}

\* C12: in the chain scripts(...).styles(...).version(), a hash version has
\* obtained is the hash of the content the preceding call wrote, so that
\* call's write had completed when the file was hashed.
C12_HashAfterWrite ==
  Chained =>
     /\ ver.js # "" => (tasks[1].written /\ ver.js = Digest(tasks[1].result))
     /\ ver.css # "" => (tasks[2].written /\ ver.css = Digest(tasks[2].result))

\* C13: a size report names the destination of the call whose file was
\* stat-ed, also when another call was made before the write callback ran.
C13_ReportNamesOwnFile ==
  \A e \in console :
     e.what = "size" =>
        LET base == AfterLast(tasks[e.task].out, "/")
        IN /\ SubSeq(e.line, 1, Len(base)) = base
           /\ e.line[Len(base) + 1] = ":"

\* C14: a scripts or styles call that ends in a usage error leaves both
\* slots of outputFiles as they were.
C14_UsageErrorKeepsRegistry ==
  [][(Len(tasks') = Len(tasks) + 1 /\ tasks'[Len(tasks')].usage)
        => outputFiles' = outputFiles]_vars
====
